---- MODULE Spec2Model ----
(***************************************************************************)
(* AivisSpeech adapter: the provider (open_notebook/providers/             *)
(* aivis_speech.py) and its OpenAI-compatible router (api/routers/         *)
(* aivis_tts.py).                                                          *)
(*                                                                         *)
(* Strings that the code inspects character by character (voice ids,      *)
(* speaker and style names) are sequences of one-character strings.       *)
(* Messages are sequences of string pieces, so an f-string is a           *)
(* concatenation.  The request text is run-length encoded (a sequence of  *)
(* runs of one character), which keeps a 5000-character text small while  *)
(* len() and strip() are still computed from it.  Speeds are in tenths    *)
(* (10 is 1.0).                                                            *)
(***************************************************************************)
EXTENDS Integers, Sequences, FiniteSets, TLC

VARIABLES
    BASE_URL,     \* AivisSpeechTTSProvider.BASE_URL, fixed when the class is created
    op,           \* op[r]: the endpoint request slot r is serving
    pc,           \* pc[r]: the await the handler of slot r is suspended at
    request,      \* request[r]: the SpeechRequest of slot r
    entered,      \* entered[r]: AivisSpeechTTSProvider.synthesize was called
    style_id,     \* style_id[r]: the local style_id of synthesize
    calls,        \* calls[r]: the engine requests slot r has issued, in order
    replies,      \* replies[r]: the engine's answers to them, in order
    response,     \* response[r]: what the router answers the caller
    voice_id,     \* argument of a stand-alone parse_voice_id call
    parsed        \* its result

vars == <<BASE_URL, op, pc, request, entered, style_id, calls, replies,
          response, voice_id, parsed>>

(***************************************************************************)
(* Names                                                                   *)
(***************************************************************************)
mao       == <<"m", "a", "o">>
kohaku    == <<"k", "o", "h", "a", "k", "u">>
normal    == <<"n", "o", "r", "m", "a", "l">>
futsuu    == <<"f", "u", "t", "s", "u", "u">>
amama     == <<"a", "m", "a", "m", "a">>
ochitsuki == <<"o", "c", "h", "i", "t", "s", "u", "k", "i">>
karakai   == <<"k", "a", "r", "a", "k", "a", "i">>
setsunane == <<"s", "e", "t", "s", "u", "n", "a", "n", "e">>
nemutai   == <<"n", "e", "m", "u", "t", "a", "i">>

Style(name, id) == [name |-> name, id |-> id]

\* The registry, in declaration order (a dict keeps insertion order).
SPEAKERS ==
    << [name |-> mao,
        styles |-> << Style(normal, 888753760),
                      Style(futsuu, 888753761),
                      Style(amama, 888753762),
                      Style(ochitsuki, 888753763),
                      Style(karakai, 888753764),
                      Style(setsunane, 888753765) >>],
       [name |-> kohaku,
        styles |-> << Style(normal, 1878365376),
                      Style(amama, 1878365377),
                      Style(setsunane, 1878365378),
                      Style(nemutai, 1878365379) >>] >>

\* The positions <<speaker, style>> of the registry.
RegistryIndex ==
    UNION { { <<i, j>> : j \in 1..Len(SPEAKERS[i].styles) } : i \in 1..Len(SPEAKERS) }

\* Every (speaker, style) pair the registry declares.
DeclaredPairs ==
    { <<SPEAKERS[p[1]].name, SPEAKERS[p[1]].styles[p[2]].name>> : p \in RegistryIndex }

\* Every engine id the registry declares.
RegistryIds == { SPEAKERS[p[1]].styles[p[2]].id : p \in RegistryIndex }

\* f"{speaker_name}_{style_name}"
VoicePrefix(speaker_name, style_name) == speaker_name \o <<"_">> \o style_name

\* str.startswith
startswith(s, prefix) ==
    /\ Len(s) >= Len(prefix)
    /\ SubSeq(s, 1, Len(prefix)) = prefix

\* Python's None for an Optional[tuple]: falsy, like the empty tuple.
None == <<>>

RECURSIVE ScanStyles(_, _, _)
\* The inner loop of parse_voice_id over the styles of speaker i, from style j.
ScanStyles(v, i, j) ==
    IF j > Len(SPEAKERS[i].styles) THEN None
    ELSE IF startswith(v, VoicePrefix(SPEAKERS[i].name, SPEAKERS[i].styles[j].name))
         THEN <<SPEAKERS[i].name, SPEAKERS[i].styles[j].name>>
         ELSE ScanStyles(v, i, j + 1)

RECURSIVE ScanSpeakers(_, _)
\* The outer loop of parse_voice_id, from speaker i.
ScanSpeakers(v, i) ==
    IF i > Len(SPEAKERS) THEN None
    ELSE LET m == ScanStyles(v, i, 1)
         IN  IF m # None THEN m ELSE ScanSpeakers(v, i + 1)

RECURSIVE ScanSpeakerOnly(_, _)
\* Mutant of parse_voice_id: matches on the speaker name alone and answers
\* that speaker's first style.
ScanSpeakerOnly(v, i) ==
    IF i > Len(SPEAKERS) THEN None
    ELSE IF startswith(v, SPEAKERS[i].name \o <<"_">>)
         THEN <<SPEAKERS[i].name, SPEAKERS[i].styles[1].name>>
         ELSE ScanSpeakerOnly(v, i + 1)

parse_voice_id_speaker_only(v) == ScanSpeakerOnly(v, 1)

\* Mutant of parse_voice_id: an unknown voice falls back to the default voice.
parse_voice_id_fallback(v) ==
    IF ScanSpeakers(v, 1) # None THEN ScanSpeakers(v, 1) ELSE <<kohaku, normal>>

\* AivisSpeechTTSProvider.parse_voice_id
parse_voice_id(v) == ScanSpeakers(v, 1)

\* cls.SPEAKERS[speaker_name][style_name]
StyleIdOf(speaker_name, style_name) ==
    LET i == CHOOSE k \in 1..Len(SPEAKERS) : SPEAKERS[k].name = speaker_name
        j == CHOOSE k \in 1..Len(SPEAKERS[i].styles) :
                 SPEAKERS[i].styles[k].name = style_name
    IN  SPEAKERS[i].styles[j].id

(***************************************************************************)
(* Stand-alone calls of parse_voice_id                                     *)
(***************************************************************************)
\* The longest suffix appended to a declared "{speaker}_{style}".
MaxSuffixLen == 3

SuffixChars == {"_", "a", "j", "n"}

RECURSIVE SeqsUpTo(_, _)
\* All sequences over S of length at most n.
SeqsUpTo(S, n) ==
    IF n = 0 THEN { <<>> }
    ELSE LET shorter == SeqsUpTo(S, n - 1)
         IN  shorter \cup { Append(s, c) : s \in shorter, c \in S }

Suffixes == SeqsUpTo(SuffixChars, MaxSuffixLen)

unknown_voice == <<"u", "n", "k", "n", "o", "w", "n", "_", "v", "o", "i", "c", "e">>

\* Identifiers that carry no declared prefix.
UndeclaredVoices ==
    { unknown_voice, <<>>, mao, kohaku \o <<"_">>,
      VoicePrefix(mao, nemutai), VoicePrefix(kohaku, futsuu),
      VoicePrefix(normal, mao), <<"_">> \o VoicePrefix(mao, normal) }
    \cup { SubSeq(VoicePrefix(p[1], p[2]), 1, Len(VoicePrefix(p[1], p[2])) - 1) :
             p \in DeclaredPairs }

ParseInputs ==
    { VoicePrefix(p[1], p[2]) \o s : p \in DeclaredPairs, s \in Suffixes }
    \cup UndeclaredVoices

\* parse_voice_id has not returned yet.
NotParsed == << <<"?">> >>

(***************************************************************************)
(* Text                                                                    *)
(***************************************************************************)
Run(ch, n) == [ch |-> ch, n |-> n]

\* What str.strip() removes.
IsSpace(ch) == ch \in {" ", "\t", "\n"}

RECURSIVE StrLen(_)
\* len(s)
StrLen(s) == IF s = <<>> THEN 0 ELSE Head(s).n + StrLen(Tail(s))

RECURSIVE LStrip(_)
LStrip(s) ==
    IF s = <<>> THEN s
    ELSE IF IsSpace(Head(s).ch) THEN LStrip(Tail(s)) ELSE s

RECURSIVE RStrip(_)
RStrip(s) ==
    IF s = <<>> THEN s
    ELSE IF IsSpace(s[Len(s)].ch) THEN RStrip(SubSeq(s, 1, Len(s) - 1)) ELSE s

\* s.strip()
Strip(s) == RStrip(LStrip(s))

\* The longest input create_speech accepts.
MAX_INPUT == 5000

Inputs ==
    { <<>>,
      << Run(" ", 1) >>,
      << Run(" ", 1), Run("\t", MAX_INPUT) >>,
      << Run("a", 1) >>,
      << Run("a", MAX_INPUT) >>,
      << Run("a", MAX_INPUT + 1) >>,
      << Run(" ", 1), Run("a", MAX_INPUT - 1) >>,
      << Run("a", MAX_INPUT), Run(" ", 1) >> }

(***************************************************************************)
(* Exceptions and the router's translation of them                         *)
(***************************************************************************)
NoException == [type |-> "None", status_code |-> 0, detail |-> <<>>]

\* fastapi.HTTPException(status_code, detail)
HTTPException(status_code, detail) ==
    [type |-> "HTTPException", status_code |-> status_code, detail |-> detail]

\* Any other exception; detail is str(e).
Exc(type, msg) == [type |-> type, status_code |-> 0, detail |-> msg]

\* isinstance(e, ValueError): json.JSONDecodeError derives from ValueError;
\* fastapi.HTTPException and the httpx errors derive from Exception only.
IsValueError(e) == e.type \in {"ValueError", "JSONDecodeError"}

\* Mutant of ValidateInput: >= in place of >.
ValidateInputOffByOne(input) ==
    IF StrLen(input) = 0 \/ StrLen(Strip(input)) = 0
    THEN HTTPException(400, <<"Input text cannot be empty">>)
    ELSE IF StrLen(input) >= MAX_INPUT
         THEN HTTPException(400, <<"Input text too long (max 5000 characters)">>)
         ELSE NoException

\* The validation at the head of create_speech: what it raises.
ValidateInput(input) ==
    IF StrLen(input) = 0 \/ StrLen(Strip(input)) = 0
    THEN HTTPException(400, <<"Input text cannot be empty">>)
    ELSE IF StrLen(input) > MAX_INPUT
         THEN HTTPException(400, <<"Input text too long (max 5000 characters)">>)
         ELSE NoException

\* Mutant of HandleException: every failure is reported as a client error.
HandleExceptionAll400(e) == HTTPException(400, e.detail)

\* The except clauses of create_speech, applied to whatever its try block raised.
HandleException(e) ==
    IF IsValueError(e) THEN HTTPException(400, e.detail)
    ELSE HTTPException(500, <<"Failed to generate speech">>)

\* The ValueError synthesize raises for an unresolvable voice.
InvalidVoice(voice) ==
    Exc("ValueError",
        <<"Invalid voice_id '">> \o voice
            \o <<"'. ", "Expected format: 'speaker_style' (e.g., 'kohaku_normal')">>)

(***************************************************************************)
(* JSON values and results of code that may raise                          *)
(***************************************************************************)
JDict(f) == [t |-> "dict", v |-> f]
JList(q) == [t |-> "list", v |-> q]
JStr(q)  == [t |-> "str", v |-> q]
JNull    == [t |-> "null", v |-> <<>>]

\* A result: the value computed, or the exception raised instead.
Ok(value) == [exc |-> NoException, value |-> value]
Raise(e)  == [exc |-> e, value |-> <<>>]
Raised(res) == res.exc.type # "None"

RECURSIVE SetToSeq(_)
SetToSeq(S) ==
    IF S = {} THEN <<>>
    ELSE LET x == CHOOSE y \in S : TRUE IN <<x>> \o SetToSeq(S \ {x})

\* for x in j: the items a Python loop over the decoded value visits.
Iter(j) ==
    CASE j.t = "list" -> Ok(j.v)
      [] j.t = "dict" -> Ok([i \in 1..Cardinality(DOMAIN j.v) |->
                               JStr(SetToSeq(DOMAIN j.v)[i])])
      [] j.t = "str"  -> Ok([i \in 1..Len(j.v) |-> JStr(<<j.v[i]>>)])
      [] OTHER        -> Raise(Exc("TypeError", <<"object is not iterable">>))

\* j[key] for a string key.
Subscript(j, key) ==
    IF j.t = "dict"
    THEN IF key \in DOMAIN j.v THEN Ok(j.v[key]) ELSE Raise(Exc("KeyError", <<key>>))
    ELSE Raise(Exc("TypeError", <<"indices must be integers">>))

(***************************************************************************)
(* The engine                                                              *)
(***************************************************************************)
HTTPResponse(status, decodable, json, content) ==
    [kind |-> "response", status |-> status, decodable |-> decodable,
     json |-> json, content |-> content]

\* The request never completed: httpx raises a TransportError.
TransportFailure(kind) ==
    [kind |-> kind, status |-> 0, decodable |-> FALSE, json |-> JNull, content |-> ""]

TransportErrors == {"ConnectError", "ReadTimeout"}

\* httpx.Response.is_success
is_success(status) == status \div 100 = 2

\* What awaiting the request and response.raise_for_status() raise.
raise_for_status(reply) ==
    IF reply.kind # "response" THEN Exc(reply.kind, <<"transport failure">>)
    ELSE IF ~is_success(reply.status) THEN Exc("HTTPStatusError", <<"status error">>)
    ELSE NoException

\* response.json()
json(reply) ==
    IF reply.decodable THEN Ok(reply.json)
    ELSE Raise(Exc("JSONDecodeError", <<"Expecting value: line 1 column 1 (char 0)">>))

\* Query documents the engine may answer /audio_query with.
AudioQueries ==
    { JDict([accent_phrases |-> "ap", pitchScale |-> 0]),
      JDict([accent_phrases |-> "ap", pitchScale |-> 0, speedScale |-> 10]),
      JList(<<>>) }

AudioQueryReplies ==
    { HTTPResponse(200, TRUE, q, "") : q \in AudioQueries }
    \cup { HTTPResponse(200, FALSE, JNull, ""), HTTPResponse(500, FALSE, JNull, "") }
    \cup { TransportFailure(k) : k \in TransportErrors }

SynthesisReplies ==
    { HTTPResponse(200, FALSE, JNull, "RIFF-1"), HTTPResponse(200, FALSE, JNull, "RIFF-2"),
      HTTPResponse(500, TRUE, JNull, "") }
    \cup { TransportFailure(k) : k \in TransportErrors }

\* An engine request as the mock transport sees it.
EngineCall(method, path, speaker, text, body, timeout) ==
    [method |-> method, url |-> <<BASE_URL, path>>, speaker |-> speaker,
     text |-> text, json |-> body, timeout |-> timeout]

\* Mutant of AudioQueryCall: the voice is not applied, the engine's first
\* speaker is asked for.
AudioQueryCallDefaultSpeaker(sid, text) ==
    EngineCall("POST", "/audio_query", SPEAKERS[1].styles[1].id, text, JNull, 30)

\* client.post(f"{cls.BASE_URL}/audio_query", params=query_params, timeout=30.0)
AudioQueryCall(sid, text) ==
    EngineCall("POST", "/audio_query", sid, text, JNull, 30)

\* Mutant of SynthesisCall: the speaker's position is sent in place of the style id.
SynthesisCallWrongSpeaker(sid, audio_query) ==
    EngineCall("POST", "/synthesis", 1, <<>>, audio_query, 60)

\* client.post(f"{cls.BASE_URL}/synthesis", params={"speaker": style_id},
\*             json=audio_query, timeout=60.0)
SynthesisCall(sid, audio_query) ==
    EngineCall("POST", "/synthesis", sid, <<>>, audio_query, 60)

\* client.get(f"{cls.BASE_URL}/speakers", timeout=...)
SpeakersCall(timeout) == EngineCall("GET", "/speakers", 0, <<>>, JNull, timeout)

\* Mutant of AdjustSpeed: speedScale is always written.
AdjustSpeedAlways(audio_query, speed) ==
    IF audio_query.t = "dict"
    THEN Ok(JDict(("speedScale" :> speed) @@ audio_query.v))
    ELSE Raise(Exc("TypeError", <<"indices must be integers">>))

\* if speed != 1.0: audio_query["speedScale"] = speed
AdjustSpeed(audio_query, speed) ==
    IF speed # 10
    THEN IF audio_query.t = "dict"
         THEN Ok(JDict(("speedScale" :> speed) @@ audio_query.v))
         ELSE Raise(Exc("TypeError", <<"indices must be integers">>))
    ELSE Ok(audio_query)

\* synthesize from the answer of /audio_query up to the /synthesis request:
\* the document to send, or what was raised.
PrepareSynthesis(reply, speed) ==
    IF raise_for_status(reply).type # "None" THEN Raise(raise_for_status(reply))
    ELSE IF Raised(json(reply)) THEN json(reply)
    ELSE AdjustSpeed(json(reply).value, speed)

(***************************************************************************)
(* The speaker catalog                                                     *)
(***************************************************************************)
\* speaker.get(key, default)
DictGet(d, key, default) == IF key \in DOMAIN d THEN d[key] ELSE default

\* The voice record get_available_voices builds for one style, evaluated in
\* the order of the dict display.
VoiceRecord(speaker, style) ==
    IF "name" \notin DOMAIN speaker.v THEN Raise(Exc("KeyError", <<"name">>))
    ELSE IF Raised(Subscript(style, "name")) THEN Subscript(style, "name")
    ELSE IF Raised(Subscript(style, "id")) THEN Subscript(style, "id")
    ELSE Ok([id |-> speaker.v["name"] \o <<"_">> \o style.v["name"],
             name |-> style.v["name"],
             speaker |-> speaker.v["name"],
             style_id |-> style.v["id"]])

RECURSIVE AppendStyles(_, _, _)
\* The inner loop of get_available_voices: voices with the records of the
\* remaining styles appended.
AppendStyles(speaker, styles, voices) ==
    IF styles = <<>> THEN Ok(voices)
    ELSE IF Raised(VoiceRecord(speaker, Head(styles)))
         THEN VoiceRecord(speaker, Head(styles))
         ELSE AppendStyles(speaker, Tail(styles),
                           Append(voices, VoiceRecord(speaker, Head(styles)).value))

RECURSIVE AppendSpeakers(_, _)
\* The outer loop of get_available_voices.
AppendSpeakers(speakers, voices) ==
    IF speakers = <<>> THEN Ok(voices)
    ELSE LET speaker == Head(speakers)
         IN  IF speaker.t # "dict"
             THEN Raise(Exc("AttributeError", <<"object has no attribute 'get'">>))
             ELSE LET styles == Iter(DictGet(speaker.v, "styles", JList(<<>>)))
                  IN  IF Raised(styles) THEN styles
                      ELSE LET more == AppendStyles(speaker, styles.value, voices)
                           IN  IF Raised(more) THEN more
                               ELSE AppendSpeakers(Tail(speakers), more.value)

\* The try block of get_available_voices, from the answer of /speakers on.
FlattenCatalog(reply) ==
    IF raise_for_status(reply).type # "None" THEN Raise(raise_for_status(reply))
    ELSE IF Raised(json(reply)) THEN json(reply)
    ELSE IF Raised(Iter(json(reply).value)) THEN Iter(json(reply).value)
    ELSE AppendSpeakers(Iter(json(reply).value).value, <<>>)

\* Mutant of get_available_voices: the records built before a failure are kept.
get_available_voices_partial(reply) ==
    IF ~Raised(FlattenCatalog(reply)) THEN FlattenCatalog(reply)
    ELSE IF raise_for_status(reply).type = "None" /\ reply.decodable
              /\ reply.json.t = "list" /\ reply.json.v # <<>>
              /\ ~Raised(AppendSpeakers(<<Head(reply.json.v)>>, <<>>))
         THEN AppendSpeakers(<<Head(reply.json.v)>>, <<>>)
         ELSE Ok(<<>>)

\* AivisSpeechTTSProvider.get_available_voices, from the answer of /speakers
\* on: except Exception: return [].
get_available_voices(reply) ==
    IF Raised(FlattenCatalog(reply)) THEN Ok(<<>>) ELSE FlattenCatalog(reply)

\* AivisSpeechTTSProvider.health_check, from the answer of /speakers on.
provider_health_check(reply) ==
    IF reply.kind # "response" THEN Ok(FALSE) ELSE Ok(reply.status = 200)

SpeakerEntry(name, styles) == JDict([name |-> name, styles |-> JList(styles)])
StyleEntry(name, id) == JDict([name |-> name, id |-> id])

KohakuEntry == SpeakerEntry(kohaku, << StyleEntry(normal, 1878365376) >>)
MaoEntry ==
    SpeakerEntry(mao, << StyleEntry(normal, 888753760), StyleEntry(amama, 888753762) >>)

\* Bodies the engine may answer /speakers with, decoded.  These are
\* sequences: values of unlike shape cannot be members of one set.
WellFormedCatalogs ==
    << JList(<<>>), JList(<< KohakuEntry >>), JList(<< MaoEntry, KohakuEntry >>) >>

\* A speaker without styles contributes no record and raises nothing.
TolerantCatalogs ==
    << JList(<< KohakuEntry, JDict([name |-> mao]) >>) >>

\* Decoded bodies on which the flattening raises.
MalformedCatalogs ==
    << JNull,
       JDict([detail |-> "Not Found"]),
       JList(<< KohakuEntry, JStr(mao) >>),
       JList(<< KohakuEntry, JDict([styles |-> JList(<< StyleEntry(normal, 888753760) >>)]) >>),
       JList(<< KohakuEntry, SpeakerEntry(mao, << JDict([name |-> normal]) >>) >>),
       JList(<< KohakuEntry, JDict([name |-> mao, styles |-> JNull]) >>) >>

Catalogs == WellFormedCatalogs \o TolerantCatalogs \o MalformedCatalogs

SpeakersReplies ==
    [i \in 1..Len(Catalogs) |-> HTTPResponse(200, TRUE, Catalogs[i], "")]
    \o << HTTPResponse(200, FALSE, JNull, ""),
          HTTPResponse(201, TRUE, JList(<< KohakuEntry >>), ""),
          HTTPResponse(204, FALSE, JNull, ""),
          HTTPResponse(404, TRUE, JDict([detail |-> "Not Found"]), ""),
          HTTPResponse(500, FALSE, JNull, ""),
          TransportFailure("ConnectError"),
          TransportFailure("ReadTimeout") >>

(***************************************************************************)
(* Requests                                                                *)
(***************************************************************************)
\* Request slots: handlers the event loop may have in flight at once.  The
\* handlers share nothing but the read-only class attributes.
Requests == {1, 2}

\* Field(ge=0.5, le=2.0) of SpeechRequest.speed, in tenths.
SPEED_GE == 5
SPEED_LE == 20

Speeds == {4, 5, 10, 20, 21}

Voices ==
    { VoicePrefix(kohaku, normal),
      VoicePrefix(mao, amama) \o <<"_", "j", "a">>,
      unknown_voice,
      VoicePrefix(mao, nemutai) }

\* The SpeechRequest objects pydantic lets through to create_speech.
SpeechRequests ==
    { [input |-> i, voice |-> v, speed |-> s] :
        i \in Inputs, v \in Voices, s \in { x \in Speeds : SPEED_GE <= x /\ x <= SPEED_LE } }

NoRequest == [input |-> <<>>, voice |-> <<>>, speed |-> 10]

\* An HTTP answer of the router.
Answer(status_code, detail, content, voice_used, body) ==
    [status_code |-> status_code, detail |-> detail, content |-> content,
     voice_used |-> voice_used, json |-> body]

NoResponse == Answer(0, <<>>, "", <<>>, <<>>)

\* FastAPI's answer to a raised HTTPException.
ErrorAnswer(e) == Answer(e.status_code, e.detail, "", <<>>, <<>>)

\* Response(content=audio_data, media_type="audio/wav", headers=...)
AudioAnswer(audio_data, voice) == Answer(200, <<>>, audio_data, voice, <<>>)

\* os.getenv("AIVIS_API_ENDPOINT", "http://127.0.0.1:10101")
getenv(environ) ==
    IF "AIVIS_API_ENDPOINT" \in DOMAIN environ
    THEN environ["AIVIS_API_ENDPOINT"]
    ELSE "http://127.0.0.1:10101"

\* Process environments the service may be started in.
Environs == { <<>>, [AIVIS_API_ENDPOINT |-> "http://aivis-engine:10101"] }

\* The body of GET /v1/audio/health.
HealthBody(is_healthy) ==
    [status |-> IF is_healthy THEN "healthy" ELSE "unhealthy",
     provider |-> "aivis-speech",
     endpoint |-> "http://127.0.0.1:10101"]

Init ==
    /\ \E environ \in Environs : BASE_URL = getenv(environ)
    /\ op = [r \in Requests |-> "idle"]
    /\ pc = [r \in Requests |-> "idle"]
    /\ request = [r \in Requests |-> NoRequest]
    /\ entered = [r \in Requests |-> FALSE]
    /\ style_id = [r \in Requests |-> 0]
    /\ calls = [r \in Requests |-> <<>>]
    /\ replies = [r \in Requests |-> <<>>]
    /\ response = [r \in Requests |-> NoResponse]
    /\ voice_id = <<>>
    /\ parsed = NotParsed

\* Slot r ends with the answer a.
Finish(r, a) ==
    /\ pc' = [pc EXCEPT ![r] = "done"]
    /\ response' = [response EXCEPT ![r] = a]

\* Slot r issues the engine request c and waits at the await named by at.
Await(r, c, at) ==
    /\ pc' = [pc EXCEPT ![r] = at]
    /\ calls' = [calls EXCEPT ![r] = Append(@, c)]
    /\ UNCHANGED response

\* The engine's answer to the pending request of slot r is reply.
Receive(r, reply) == replies' = [replies EXCEPT ![r] = Append(@, reply)]

\* POST /v1/audio/speech with a body pydantic rejects: create_speech never runs.
request_validation_error(r) ==
    /\ pc[r] = "idle"
    /\ \E s \in Speeds :
         /\ ~(SPEED_GE <= s /\ s <= SPEED_LE)
         /\ op' = [op EXCEPT ![r] = "unprocessable"]
         /\ Finish(r, Answer(422, <<"speed">>, "", <<>>, <<>>))
    /\ UNCHANGED <<BASE_URL, request, entered, style_id, calls, replies, voice_id, parsed>>

\* create_speech up to its first await: validation, then synthesize up to the
\* /audio_query request.
create_speech(r) ==
    /\ pc[r] = "idle"
    /\ \E req \in SpeechRequests :
         /\ op' = [op EXCEPT ![r] = "speech"]
         /\ request' = [request EXCEPT ![r] = req]
         /\ IF ValidateInput(req.input).type # "None"
            THEN /\ Finish(r, ErrorAnswer(HandleException(ValidateInput(req.input))))
                 /\ UNCHANGED <<entered, style_id, calls>>
            ELSE /\ entered' = [entered EXCEPT ![r] = TRUE]
                 /\ IF parse_voice_id(req.voice) = None
                    THEN /\ Finish(r, ErrorAnswer(HandleException(InvalidVoice(req.voice))))
                         /\ UNCHANGED <<style_id, calls>>
                    ELSE LET p == parse_voice_id(req.voice)
                             sid == StyleIdOf(p[1], p[2])
                         IN  /\ style_id' = [style_id EXCEPT ![r] = sid]
                             /\ Await(r, AudioQueryCall(sid, req.input), "audio_query")
    /\ UNCHANGED <<BASE_URL, replies, voice_id, parsed>>

\* synthesize resumes with the answer of /audio_query: up to the /synthesis
\* request, or out through the except clauses of create_speech.
audio_query_returns(r) ==
    /\ pc[r] = "audio_query"
    /\ \E reply \in AudioQueryReplies :
         /\ Receive(r, reply)
         /\ LET prepared == PrepareSynthesis(reply, request[r].speed)
            IN  IF Raised(prepared)
                THEN /\ Finish(r, ErrorAnswer(HandleException(prepared.exc)))
                     /\ UNCHANGED calls
                ELSE Await(r, SynthesisCall(style_id[r], prepared.value), "synthesis")
    /\ UNCHANGED <<BASE_URL, op, request, entered, style_id, voice_id, parsed>>

\* synthesize resumes with the answer of /synthesis and returns its body, which
\* create_speech wraps; or out through the except clauses.
synthesis_returns(r) ==
    /\ pc[r] = "synthesis"
    /\ \E reply \in SynthesisReplies :
         /\ Receive(r, reply)
         /\ IF raise_for_status(reply).type # "None"
            THEN Finish(r, ErrorAnswer(HandleException(raise_for_status(reply))))
            ELSE Finish(r, AudioAnswer(reply.content, request[r].voice))
    /\ UNCHANGED <<BASE_URL, op, request, entered, style_id, calls, voice_id, parsed>>

\* list_voices up to the await inside get_available_voices.
list_voices(r) ==
    /\ pc[r] = "idle"
    /\ op' = [op EXCEPT ![r] = "voices"]
    /\ Await(r, SpeakersCall(10), "speakers")
    /\ UNCHANGED <<BASE_URL, request, entered, style_id, replies, voice_id, parsed>>

\* list_voices resumes with the answer of /speakers.
list_voices_returns(r) ==
    /\ pc[r] = "speakers" /\ op[r] = "voices"
    /\ \E i \in 1..Len(SpeakersReplies) : LET reply == SpeakersReplies[i] IN
         /\ Receive(r, reply)
         /\ IF Raised(get_available_voices(reply))
            THEN Finish(r, ErrorAnswer(HTTPException(500, <<"Failed to retrieve voices">>)))
            ELSE Finish(r, Answer(200, <<>>, "", <<>>,
                                  [object |-> "list",
                                   data |-> get_available_voices(reply).value]))
    /\ UNCHANGED <<BASE_URL, op, request, entered, style_id, calls, voice_id, parsed>>

\* The router's health_check up to the await inside the provider's.
health_check(r) ==
    /\ pc[r] = "idle"
    /\ op' = [op EXCEPT ![r] = "health"]
    /\ Await(r, SpeakersCall(5), "speakers")
    /\ UNCHANGED <<BASE_URL, request, entered, style_id, replies, voice_id, parsed>>

\* The router's health_check resumes with the answer of /speakers.
health_check_returns(r) ==
    /\ pc[r] = "speakers" /\ op[r] = "health"
    /\ \E i \in 1..Len(SpeakersReplies) : LET reply == SpeakersReplies[i] IN
         /\ Receive(r, reply)
         /\ Finish(r, Answer(200, <<>>, "", <<>>,
                             HealthBody(provider_health_check(reply).value)))
    /\ UNCHANGED <<BASE_URL, op, request, entered, style_id, calls, voice_id, parsed>>

\* The answer of slot r is delivered; the handler's frame is gone.
deliver(r) ==
    /\ pc[r] = "done"
    /\ op' = [op EXCEPT ![r] = "idle"]
    /\ pc' = [pc EXCEPT ![r] = "idle"]
    /\ request' = [request EXCEPT ![r] = NoRequest]
    /\ entered' = [entered EXCEPT ![r] = FALSE]
    /\ style_id' = [style_id EXCEPT ![r] = 0]
    /\ calls' = [calls EXCEPT ![r] = <<>>]
    /\ replies' = [replies EXCEPT ![r] = <<>>]
    /\ response' = [response EXCEPT ![r] = NoResponse]
    /\ UNCHANGED <<BASE_URL, voice_id, parsed>>

Next ==
    \/ \E r \in Requests : request_validation_error(r)
    \/ \E r \in Requests : create_speech(r)
    \/ \E r \in Requests : audio_query_returns(r)
    \/ \E r \in Requests : synthesis_returns(r)
    \/ \E r \in Requests : list_voices(r)
    \/ \E r \in Requests : list_voices_returns(r)
    \/ \E r \in Requests : health_check(r)
    \/ \E r \in Requests : health_check_returns(r)
    \/ \E r \in Requests : deliver(r)

Spec == Init /\ [][Next]_vars

(***************************************************************************)
(* parse_voice_id on its own                                               *)
(***************************************************************************)
InitParse ==
    /\ BASE_URL = getenv(<<>>)
    /\ op = [r \in Requests |-> "idle"]
    /\ pc = [r \in Requests |-> "idle"]
    /\ request = [r \in Requests |-> NoRequest]
    /\ entered = [r \in Requests |-> FALSE]
    /\ style_id = [r \in Requests |-> 0]
    /\ calls = [r \in Requests |-> <<>>]
    /\ replies = [r \in Requests |-> <<>>]
    /\ response = [r \in Requests |-> NoResponse]
    /\ voice_id \in ParseInputs
    /\ parsed = NotParsed

call_parse_voice_id ==
    /\ parsed = NotParsed
    /\ parsed' = parse_voice_id(voice_id)
    /\ UNCHANGED <<BASE_URL, op, pc, request, entered, style_id, calls, replies,
                   response, voice_id>>

NextParse == call_parse_voice_id

SpecParse == InitParse /\ [][NextParse]_vars

(***************************************************************************)
(* Properties                                                              *)
(***************************************************************************)
\* The text is empty or consists of whitespace only.
AllSpace(input) == \A i \in 1..Len(input) : input[i].ch \in {" ", "\t", "\n"}

\* The text is longer than create_speech accepts.
TooLong(input) == StrLen(input) >= 5001

\* Slot r has run create_speech (on a request pydantic accepted).
Speech(r) == op[r] = "speech"

\* Slot r has run create_speech to its end.
SpeechDone(r) == Speech(r) /\ pc[r] = "done"

\* sub occurs in q as a contiguous piece.
Contains(q, sub) ==
    \E i \in 1..(Len(q) - Len(sub) + 1) : SubSeq(q, i, i + Len(sub) - 1) = sub

\* v begins with the characters of q.
HasPrefix(v, q) == Len(v) >= Len(q) /\ \A i \in 1..Len(q) : v[i] = q[i]

\* The voice identifier starts with no declared "{speaker}_{style}".
NoDeclaredPrefix(v) ==
    \A p \in DeclaredPairs : ~HasPrefix(v, p[1] \o <<"_">> \o p[2])

\* An engine answer that is a failure: no answer at all, or a non-success status.
EngineFailure(reply) ==
    \/ reply.kind \in {"ConnectError", "ReadTimeout"}
    \/ reply.status < 200 \/ reply.status > 299

\* The path of an engine request.
PathOf(c) == c.url[2]

\* C1: a create_speech request whose input is empty, all-whitespace or longer
\* than 5000 characters is answered with status 400, whatever voice and speed.
C1_RejectedInputIs400 ==
    \A r \in Requests :
        (SpeechDone(r) /\ (AllSpace(request[r].input) \/ TooLong(request[r].input)))
            => response[r].status_code = 400

\* C2: an empty, all-whitespace or over-long input is rejected with no engine
\* request issued and without synthesize being entered, while a non-blank input
\* of exactly 5000 characters passes validation and reaches synthesize.
C2_ValidationBeforeEngine ==
    \A r \in Requests :
        Speech(r) =>
            /\ (AllSpace(request[r].input) \/ TooLong(request[r].input))
                 => /\ calls[r] = <<>>
                    /\ ~entered[r]
                    /\ pc[r] = "done"
                    /\ response[r].status_code >= 400
                    /\ response[r].content = ""
            /\ (~AllSpace(request[r].input) /\ StrLen(request[r].input) = 5000)
                 => entered[r]

C2_Witness ==
    \E r1, r2 \in Requests :
        /\ Speech(r1) /\ StrLen(request[r1].input) = 5000 /\ entered[r1]
        /\ Len(calls[r1]) >= 1
        /\ Speech(r2) /\ StrLen(request[r2].input) = 5001 /\ pc[r2] = "done"

\* C3: with a valid text and a voice that starts with no declared prefix,
\* synthesize is entered and fails without any engine request, and the answer
\* is status 400 with a detail that contains the voice identifier.
C3_UnknownVoiceIs400 ==
    \A r \in Requests :
        ( /\ Speech(r)
          /\ ~AllSpace(request[r].input) /\ ~TooLong(request[r].input)
          /\ NoDeclaredPrefix(request[r].voice) )
            => /\ entered[r]
               /\ calls[r] = <<>>
               /\ pc[r] = "done"
               /\ response[r].status_code = 400
               /\ Contains(response[r].detail, request[r].voice)
               /\ response[r].content = ""

C3_Witness ==
    \E r \in Requests :
        /\ SpeechDone(r)
        /\ request[r].voice = unknown_voice
        /\ StrLen(request[r].input) = 5000
        /\ entered[r]
        /\ response[r].status_code = 400

\* C4: the speaker id of every /audio_query and /synthesis request is the
\* registry entry of the pair parse_voice_id returns for the invocation's
\* voice; no engine request carries an id the registry does not declare.
C4_SpeakerIdFromRegistry ==
    \A r \in Requests :
        \A i \in 1..Len(calls[r]) :
            PathOf(calls[r][i]) \in {"/audio_query", "/synthesis"} =>
                /\ calls[r][i].speaker \in RegistryIds
                /\ parse_voice_id(request[r].voice) # None
                /\ \E p \in RegistryIndex :
                     /\ SPEAKERS[p[1]].name = parse_voice_id(request[r].voice)[1]
                     /\ SPEAKERS[p[1]].styles[p[2]].name = parse_voice_id(request[r].voice)[2]
                     /\ SPEAKERS[p[1]].styles[p[2]].id = calls[r][i].speaker

C4_Witness ==
    \E r1, r2 \in Requests :
        /\ Len(calls[r1]) = 2 /\ calls[r1][2].speaker = 1878365376
        /\ PathOf(calls[r1][2]) = "/synthesis"
        /\ Len(calls[r2]) = 2 /\ calls[r2][2].speaker = 888753762
        /\ PathOf(calls[r2][2]) = "/synthesis"

\* The document sent agrees with the document got on every field but speedScale.
SameButSpeedScale(sent, got) ==
    /\ sent.t = got.t
    /\ IF got.t = "dict"
       THEN /\ DOMAIN sent.v \ {"speedScale"} = DOMAIN got.v \ {"speedScale"}
            /\ \A k \in DOMAIN got.v \ {"speedScale"} : sent.v[k] = got.v[k]
       ELSE sent.v = got.v

\* C5: an invocation never issues more than two engine requests, the first to
\* /audio_query and the second to /synthesis; when both are answered with
\* success, the first carried the declared style id of the resolved pair and the
\* text, the second the same id and the document the first one returned, and
\* the value returned is the body of the second answer.
C5_TwoCallsInOrder ==
    \A r \in Requests :
        Speech(r) =>
            /\ Len(calls[r]) <= 2 /\ Len(replies[r]) <= Len(calls[r])
            /\ Len(calls[r]) >= 1 => PathOf(calls[r][1]) = "/audio_query"
            /\ Len(calls[r]) = 2 => PathOf(calls[r][2]) = "/synthesis"
            /\ ( /\ Len(replies[r]) = 2
                 /\ ~EngineFailure(replies[r][1]) /\ ~EngineFailure(replies[r][2]) )
                 => /\ calls[r][1].method = "POST" /\ calls[r][2].method = "POST"
                    /\ calls[r][1].text = request[r].input
                    /\ \E p \in RegistryIndex :
                         /\ HasPrefix(request[r].voice,
                                      SPEAKERS[p[1]].name \o <<"_">>
                                          \o SPEAKERS[p[1]].styles[p[2]].name)
                         /\ calls[r][1].speaker = SPEAKERS[p[1]].styles[p[2]].id
                    /\ request[r].voice = kohaku \o <<"_">> \o normal
                         => calls[r][1].speaker = 1878365376
                    /\ calls[r][2].speaker = calls[r][1].speaker
                    /\ SameButSpeedScale(calls[r][2].json, replies[r][1].json)
                    /\ pc[r] = "done"
                    /\ response[r].status_code = 200
                    /\ response[r].content = replies[r][2].content

C5_Witness ==
    \E r \in Requests :
        /\ SpeechDone(r)
        /\ request[r].voice = kohaku \o <<"_">> \o normal
        /\ Len(calls[r]) = 2 /\ Len(replies[r]) = 2
        /\ response[r].status_code = 200
        /\ response[r].content = "RIFF-2"

\* C6: when the /audio_query request fails (no answer, or a non-success status)
\* no /synthesis request is made; a failure of either request ends the
\* invocation with an error and no audio, nothing is sent again, and
\* create_speech answers status 500.
C6_EngineFailureIs500 ==
    \A r \in Requests :
        Speech(r) =>
            /\ (Len(replies[r]) >= 1 /\ EngineFailure(replies[r][1]))
                 => /\ Len(calls[r]) = 1
                    /\ pc[r] = "done"
                    /\ response[r].status_code = 500
                    /\ response[r].content = ""
            /\ (Len(replies[r]) = 2 /\ EngineFailure(replies[r][2]))
                 => /\ Len(calls[r]) = 2
                    /\ pc[r] = "done"
                    /\ response[r].status_code = 500
                    /\ response[r].content = ""

C6_Witness ==
    \E r1, r2 \in Requests :
        /\ SpeechDone(r1) /\ Len(replies[r1]) = 1 /\ replies[r1][1].status = 500
        /\ Len(calls[r1]) = 1 /\ response[r1].status_code = 500
        /\ SpeechDone(r2) /\ Len(replies[r2]) = 2 /\ replies[r2][2].kind = "ReadTimeout"
        /\ response[r2].status_code = 500

\* C7: the document sent to /synthesis differs from the one /audio_query
\* returned in at most speedScale: at speed 1.0 it is the same document, and
\* at any other speed its speedScale is the speed and every other field is as
\* returned.
C7_OnlySpeedScaleChanges ==
    \A r \in Requests :
        (Speech(r) /\ Len(calls[r]) = 2) =>
            IF request[r].speed = 10
            THEN calls[r][2].json = replies[r][1].json
            ELSE /\ replies[r][1].json.t = "dict"
                 /\ calls[r][2].json.t = "dict"
                 /\ "speedScale" \in DOMAIN calls[r][2].json.v
                 /\ calls[r][2].json.v["speedScale"] = request[r].speed
                 /\ DOMAIN calls[r][2].json.v = DOMAIN replies[r][1].json.v \cup {"speedScale"}
                 /\ \A k \in DOMAIN replies[r][1].json.v \ {"speedScale"} :
                        calls[r][2].json.v[k] = replies[r][1].json.v[k]

C7_Witness ==
    \E r1, r2 \in Requests :
        /\ Speech(r1) /\ Len(calls[r1]) = 2 /\ request[r1].speed = 10
        /\ replies[r1][1].json.t = "dict"
        /\ "speedScale" \notin DOMAIN calls[r1][2].json.v
        /\ Speech(r2) /\ Len(calls[r2]) = 2 /\ request[r2].speed = 20
        /\ "speedScale" \notin DOMAIN replies[r2][1].json.v
        /\ calls[r2][2].json.v["speedScale"] = 20

\* C8: for every declared pair and every suffix, parse_voice_id of
\* "{speaker}_{style}" followed by the suffix returns that pair.
C8_DeclaredPairResolvesToItself ==
    \A p \in DeclaredPairs :
        \A x \in Suffixes :
            (parsed # NotParsed /\ voice_id = p[1] \o <<"_">> \o p[2] \o x)
                => parsed = p

C8_Witness ==
    /\ voice_id = kohaku \o <<"_">> \o setsunane \o <<"_", "j", "a">>
    /\ parsed = <<kohaku, setsunane>>

\* Slot r has run list_voices, or the router's health_check, to its end.
VoicesDone(r) == op[r] = "voices" /\ pc[r] = "done"
HealthDone(r) == op[r] = "health" /\ pc[r] = "done"

\* A style entry of the catalog from which a voice record can be built.
StyleUsable(style) ==
    style.t = "dict" /\ "name" \in DOMAIN style.v /\ "id" \in DOMAIN style.v

\* A speaker entry the flattening gets through: an object without styles, or
\* with a list of usable styles and, if any, a name.
SpeakerUsable(speaker) ==
    /\ speaker.t = "dict"
    /\ "styles" \in DOMAIN speaker.v =>
         /\ speaker.v["styles"].t = "list"
         /\ speaker.v["styles"].v # <<>> => "name" \in DOMAIN speaker.v
         /\ \A j \in 1..Len(speaker.v["styles"].v) :
                StyleUsable(speaker.v["styles"].v[j])

\* A success answer whose catalog is malformed: the body does not decode, or
\* decodes to something the flattening cannot get through.
MalformedCatalog(reply) ==
    /\ ~EngineFailure(reply)
    /\ \/ ~reply.decodable
       \/ reply.json.t # "list"
       \/ \E i \in 1..Len(reply.json.v) : ~SpeakerUsable(reply.json.v[i])

\* C9 as stated: on a transport failure, a timeout, a non-success status or a
\* malformed catalog get_available_voices returns the empty list and
\* health_check returns false; health_check returns true only on a success
\* status; GET /v1/audio/voices never answers 500.
C9_FailOpenOnEveryOutcome ==
    \A r \in Requests :
        /\ VoicesDone(r) =>
             /\ response[r].status_code # 500
             /\ (EngineFailure(replies[r][1]) \/ MalformedCatalog(replies[r][1]))
                  => response[r].json.data = <<>>
        /\ HealthDone(r) =>
             /\ (EngineFailure(replies[r][1]) \/ MalformedCatalog(replies[r][1]))
                  => response[r].json.status = "unhealthy"
             /\ response[r].json.status = "healthy" => ~EngineFailure(replies[r][1])

\* C9, amended: neither operation passes an error on.  On a transport failure,
\* a timeout or a non-success status get_available_voices returns the empty
\* list and health_check returns false.  On a success answer whose catalog
\* makes decoding or flattening raise, get_available_voices returns the empty
\* list, and health_check, which does not read the body, returns true exactly
\* when the status is 200.  health_check returns true only on a success status,
\* and GET /v1/audio/voices and GET /v1/audio/health always answer 200.
C9_FailOpen ==
    \A r \in Requests :
        /\ VoicesDone(r) =>
             /\ response[r].status_code = 200
             /\ (EngineFailure(replies[r][1]) \/ MalformedCatalog(replies[r][1]))
                  => response[r].json.data = <<>>
        /\ HealthDone(r) =>
             /\ response[r].status_code = 200
             /\ response[r].json.status \in {"healthy", "unhealthy"}
             /\ EngineFailure(replies[r][1]) => response[r].json.status = "unhealthy"
             /\ response[r].json.status = "healthy"
                  <=> (replies[r][1].kind = "response" /\ replies[r][1].status = 200)
             /\ response[r].json.status = "healthy" => ~EngineFailure(replies[r][1])

C9_Witness ==
    \E r1, r2 \in Requests :
        /\ VoicesDone(r1) /\ MalformedCatalog(replies[r1][1])
        /\ replies[r1][1].decodable /\ replies[r1][1].json.t = "list"
        /\ response[r1].json.data = <<>>
        /\ HealthDone(r2) /\ MalformedCatalog(replies[r2][1])
        /\ response[r2].json.status = "healthy"

\* C10: the endpoint field of the GET /v1/audio/health answer is the configured
\* engine base address, the one the probe was sent to.
C10_HealthReportsConfiguredEndpoint ==
    \A r \in Requests :
        HealthDone(r) =>
            /\ response[r].json.endpoint = BASE_URL
            /\ response[r].json.endpoint = calls[r][1].url[1]
====
